---- MODULE Spec2Model ----
(***************************************************************************)
(* Model of notebook_to_html_report/__init__.py: the kernel resolver, the  *)
(* Report constructor's path derivation, the execute / render pipeline on  *)
(* a shared file system, and the HTML cleaner.                             *)
(*                                                                         *)
(* Strings the code takes apart (file names, paths) are sequences of       *)
(* one-character strings, so that str.replace and Path.name act on the     *)
(* characters.  An HTML document is the sequence of its tokens (start tag, *)
(* end tag, text, newline); the parsed tree is the same sequence with the  *)
(* identity of its node on every token.                                    *)
(***************************************************************************)
EXTENDS Integers, Sequences, FiniteSets, TLC

VARIABLES
    required_kernel,    \* kernel(): the argument
    available_kernels,  \* kernel(): jupyter_client's find_kernel_specs().keys()
    kernel_result,      \* kernel(): the outcome of the call, None before it
    init_args,          \* Report(notebook_path, report_folder): the arguments
    report_obj,         \* the constructed Report's fields, None before the call
    raw_html,           \* the report file as notebook_to_report wrote it
    report_file,        \* the report file's current content
    light_html,         \* clean_html: the tree after lines 145-156 of the last run
    cleans,             \* number of clean_html runs on the file so far
    todo,               \* reordered unwrap loop: wrapper classes still to process
    phase,              \* reordered unwrap loop: position in the handler
    reports,            \* pipeline: the Report object of each process
    fs,                 \* pipeline: the file system, path -> content
    pc,                 \* pipeline: where each process is in its current call
    notebook,           \* pipeline: the notebook each process holds in memory
    calls               \* pipeline: each process's finished calls and outcomes

vars == <<required_kernel, available_kernels, kernel_result, init_args,
          report_obj, raw_html, report_file, light_html, cleans, todo, phase,
          reports, fs, pc, notebook, calls>>

kernel_vars == <<required_kernel, available_kernels, kernel_result>>
init_vars == <<init_args, report_obj>>
clean_vars == <<raw_html, report_file, light_html, cleans, todo, phase>>
pipe_vars == <<reports, fs, pc, notebook, calls>>

\* A value not there yet is the empty sequence, a value v that is there is <<v>>.
None == <<>>
Some(v) == <<v>>

-----------------------------------------------------------------------------
(* kernel(required_kernel), lines 21-36                                     *)

\* Kernel identifiers a notebook may declare or a host may have installed.
KernelNames == {"python3", "ir", "julia-1.0", "conda-env-py"}

\* A variant that trusts the notebook's metadata.
kernel_no_fallback(required, available) ==
    [raised |-> FALSE, value |-> required]

\* Lines 32-36; `available` is find_kernel_specs().keys().
kernel(required, available) ==
    IF required \in available
    THEN [raised |-> FALSE, value |-> required]
    ELSE [raised |-> FALSE, value |-> "python3"]

KernelIdle ==
    /\ required_kernel = None
    /\ available_kernels = {}
    /\ kernel_result = None

KernelInit ==
    /\ required_kernel \in {Some(k) : k \in KernelNames}
    /\ available_kernels \in SUBSET KernelNames
    /\ kernel_result = None

CallKernel ==
    /\ kernel_result = None
    /\ required_kernel # None
    /\ kernel_result' = Some(kernel(required_kernel[1], available_kernels))
    /\ UNCHANGED <<required_kernel, available_kernels>>
    /\ UNCHANGED <<init_vars, clean_vars, pipe_vars>>

-----------------------------------------------------------------------------
(* Character strings                                                        *)

IPYNB == <<"i", "p", "y", "n", "b">>
HTML == <<"h", "t", "m", "l">>
DOT_IPYNB == <<".">> \o IPYNB
DOT_HTML == <<".">> \o HTML
TMP == <<"/", "t", "m", "p">>

StartsWith(s, prefix) ==
    /\ Len(s) >= Len(prefix)
    /\ SubSeq(s, 1, Len(prefix)) = prefix

EndsWith(s, suffix) ==
    /\ Len(s) >= Len(suffix)
    /\ SubSeq(s, Len(s) - Len(suffix) + 1, Len(s)) = suffix

\* str.replace(old, new): every non-overlapping occurrence, left to right.
RECURSIVE Replace(_, _, _)
Replace(s, old, new) ==
    IF Len(s) < Len(old) THEN s
    ELSE IF StartsWith(s, old)
         THEN new \o Replace(SubSeq(s, Len(old) + 1, Len(s)), old, new)
         ELSE <<Head(s)>> \o Replace(Tail(s), old, new)

\* Index of the last "/" of s, 0 when there is none.
RECURSIVE LastSlash(_)
LastSlash(s) ==
    IF s = <<>> THEN 0
    ELSE IF s[Len(s)] = "/" THEN Len(s)
         ELSE LastSlash(SubSeq(s, 1, Len(s) - 1))

\* Path(p).name for a path that does not end in "/".
PathName(p) == SubSeq(p, LastSlash(p) + 1, Len(p))

\* str(Path(p).parent) for an absolute path with a folder.
PathParent(p) == SubSeq(p, 1, LastSlash(p) - 1)

\* Path(folder) / name, name holding no "/".
PathJoin(folder, name) == folder \o <<"/">> \o name

-----------------------------------------------------------------------------
(* Report.__init__(notebook_path, report_folder), lines 47-54               *)

MaxStemParts == 2

StemParts == {<<"a">>, <<"_">>, IPYNB}
Extensions == {DOT_IPYNB, <<".", "p", "y">>}
NotebookFolders == {<<"/", "n">>, <<"/", "n", "/", "w">>}
ReportFolders == {<<"/", "r">>, <<"/", "o", "/", "r">>}

RECURSIVE Stems(_)
Stems(n) ==
    IF n = 0 THEN {<<>>}
    ELSE Stems(n - 1) \cup {s \o p : s \in Stems(n - 1), p \in StemParts}

FileNames == {s \o e : s \in Stems(MaxStemParts) \ {<<>>}, e \in Extensions}

\* A constructor that keys the temporary file on the whole notebook path.
Report_init_private_tmp(notebook_path, report_folder) ==
    LET name == PathName(notebook_path) IN
    [notebook_path |-> notebook_path,
     notebook_folder |-> PathParent(notebook_path),
     notebook |-> name,
     temporary_notebook |-> PathJoin(TMP, Replace(notebook_path, <<"/">>, <<"_">>)),
     report_path |-> PathJoin(report_folder, Replace(name, IPYNB, HTML)),
     title |-> Replace(Replace(name, DOT_IPYNB, <<>>), <<"_">>, <<" ">>)]

\* Lines 48-54.
Report_init(notebook_path, report_folder) ==
    LET name == PathName(notebook_path) IN
    [notebook_path |-> notebook_path,
     notebook_folder |-> PathParent(notebook_path),
     notebook |-> name,
     temporary_notebook |-> PathJoin(TMP, name),
     report_path |-> PathJoin(report_folder, Replace(name, IPYNB, HTML)),
     title |-> Replace(Replace(name, DOT_IPYNB, <<>>), <<"_">>, <<" ">>)]

InitIdle ==
    /\ init_args = None
    /\ report_obj = None

InitInit ==
    /\ \E f \in NotebookFolders, n \in FileNames, r \in ReportFolders :
           init_args = Some([notebook_path |-> PathJoin(f, n), report_folder |-> r])
    /\ report_obj = None

Construct ==
    /\ init_args # None
    /\ report_obj = None
    /\ report_obj' = Some(Report_init(init_args[1].notebook_path, init_args[1].report_folder))
    /\ UNCHANGED init_args
    /\ UNCHANGED <<kernel_vars, clean_vars, pipe_vars>>

-----------------------------------------------------------------------------
(* HTML documents                                                           *)

StartTag(tag, attrs, cls) == [k |-> "start", tag |-> tag, attrs |-> attrs, cls |-> cls]
EndTag(tag) == [k |-> "end", tag |-> tag, attrs |-> {}, cls |-> {}]
Text == [k |-> "text", tag |-> "", attrs |-> {}, cls |-> {}]
Newline == [k |-> "nl", tag |-> "", attrs |-> {}, cls |-> {}]

\* Elements of an exported notebook: attrs is the set of attribute names of
\* the start tag, cls the value of its class attribute.
ReportElements ==
    { StartTag("div", {"class"}, {"prompt", "output_prompt"}),
      StartTag("div", {"class"}, {"output_text", "output_subarea"}),
      StartTag("div", {"class"}, {"cell", "border-box-sizing"}),
      StartTag("div", {"class", "id"}, {"container"}),
      StartTag("div", {"class"}, {"output_area"}),
      StartTag("div", {"class"}, {"input_area"}),
      StartTag("span", {"class"}, {"prompt", "output"}),
      StartTag("table", {"border", "class"}, {"dataframe"}),
      StartTag("table", {"class", "id"}, {"dataframe"}) }

ReportLeaves == {Text, Newline}

\* The well-formed documents of exactly n tokens over the given start tags
\* and leaves.
RECURSIVE Forests(_, _, _)
Forests(n, elements, leaves) ==
    IF n = 0 THEN {<<>>}
    ELSE {<<l>> \o r : l \in leaves, r \in Forests(n - 1, elements, leaves)}
         \cup
         (IF n < 2 THEN {}
          ELSE UNION { {<<e>> \o inner \o <<EndTag(e.tag)>> \o rest :
                            e \in elements,
                            inner \in Forests(j, elements, leaves),
                            rest \in Forests(n - 2 - j, elements, leaves)} :
                       j \in 0..(n - 2) })

MaxTokens == 5

RawDocs == UNION {Forests(n, ReportElements, ReportLeaves) : n \in 0..MaxTokens}

-----------------------------------------------------------------------------
(* The HTML parser's tree, BeautifulSoup(bare_html, "html.parser")          *)

\* Line 130.  Every token becomes a node carrying its identity n: the position
\* of the token in the file, an end tag carrying the identity of its start tag.
RECURSIVE ParseFrom(_, _, _, _)
ParseFrom(html, i, open, acc) ==
    IF i > Len(html) THEN acc
    ELSE LET t == html[i]
             node(n) == [k |-> t.k, tag |-> t.tag, attrs |-> t.attrs, cls |-> t.cls, n |-> n]
         IN CASE t.k = "start" ->
                   ParseFrom(html, i + 1, <<i>> \o open, Append(acc, node(i)))
              [] t.k = "end" ->
                   ParseFrom(html, i + 1, Tail(open), Append(acc, node(Head(open))))
              [] OTHER ->
                   ParseFrom(html, i + 1, open, Append(acc, node(i)))

Parse(html) == ParseFrom(html, 1, <<>>, <<>>)

\* str(light_html), line 158.
Serialize(tree) ==
    [i \in 1..Len(tree) |->
        [k |-> tree[i].k, tag |-> tree[i].tag, attrs |-> tree[i].attrs, cls |-> tree[i].cls]]

InTree(tree, n) == \E i \in 1..Len(tree) : tree[i].n = n /\ tree[i].k = "start"
StartOf(tree, n) == CHOOSE i \in 1..Len(tree) : tree[i].n = n /\ tree[i].k = "start"
EndOf(tree, n) == CHOOSE i \in 1..Len(tree) : tree[i].n = n /\ tree[i].k = "end"

\* find in place of find_all: the first such element only.
findAll_first_only(tree, name, class) ==
    LET Hit(t) == t.k = "start" /\ t.tag = name /\ class \in t.cls
        found == SelectSeq(tree, Hit)
    IN IF found = <<>> THEN <<>> ELSE <<Head(found)>>

\* find_all(name, {"class": class}): the elements of that tag whose class
\* attribute holds the class, in document order, as a list made up front.
findAll(tree, name, class) ==
    LET Hit(t) == t.k = "start" /\ t.tag = name /\ class \in t.cls
    IN SelectSeq(tree, Hit)

\* Tag.decompose(): the element and everything in it leave the tree.  On an
\* element already destroyed with an ancestor it changes nothing.
decompose(tree, n) ==
    IF ~InTree(tree, n) THEN tree
    ELSE SubSeq(tree, 1, StartOf(tree, n) - 1)
         \o SubSeq(tree, EndOf(tree, n) + 1, Len(tree))

\* An unwrap that drops the children with the element.
replaceWithChildren_drop(tree, n) == decompose(tree, n)

\* Tag.replaceWithChildren(): the element leaves, its children take its place.
replaceWithChildren(tree, n) ==
    IF ~InTree(tree, n) THEN tree
    ELSE SubSeq(tree, 1, StartOf(tree, n) - 1)
         \o SubSeq(tree, StartOf(tree, n) + 1, EndOf(tree, n) - 1)
         \o SubSeq(tree, EndOf(tree, n) + 1, Len(tree))

-----------------------------------------------------------------------------
(* Report.clean_html(), lines 123-161                                       *)

\* Line 132.
classes_to_remove == <<"output_text", "prompt">>

\* Lines 133-143.
classes_to_replace ==
    <<"border-box-sizing", "container", "cell", "inner_cell", "rendered_html",
      "output_prompt", "output_wrapper", "output", "output_area">>

Range(seq) == {seq[i] : i \in 1..Len(seq)}

\* Line 146-147, the inner loop over one class's elements.
RECURSIVE DecomposeEach(_, _)
DecomposeEach(tree, found) ==
    IF found = <<>> THEN tree
    ELSE DecomposeEach(decompose(tree, Head(found).n), Tail(found))

\* Lines 145-147.
RECURSIVE RemoveLoop(_, _)
RemoveLoop(tree, classes) ==
    IF classes = <<>> THEN tree
    ELSE RemoveLoop(DecomposeEach(tree, findAll(tree, "div", Head(classes))),
                    Tail(classes))

\* Lines 150-151, the inner loop over one class's elements.
RECURSIVE ReplaceEach(_, _)
ReplaceEach(tree, found) ==
    IF found = <<>> THEN tree
    ELSE ReplaceEach(replaceWithChildren(tree, Head(found).n), Tail(found))

\* The cell class handled as a class to remove.
ReplaceClass_cell_removed(tree, class) ==
    IF class = "cell"
    THEN DecomposeEach(tree, findAll(tree, "div", class))
    ELSE ReplaceEach(tree, findAll(tree, "div", class))

\* Lines 150-151 for one class.
ReplaceClass(tree, class) == ReplaceEach(tree, findAll(tree, "div", class))

\* Lines 149-151.
RECURSIVE ReplaceLoop(_, _)
ReplaceLoop(tree, classes) ==
    IF classes = <<>> THEN tree
    ELSE ReplaceLoop(ReplaceClass(tree, Head(classes)), Tail(classes))

\* What the comment of line 153 announces: only the class goes.
StripTables_class_only(tree) ==
    [i \in 1..Len(tree) |->
        IF tree[i].k = "start" /\ tree[i].tag = "table" /\ "id" \notin tree[i].attrs
        THEN [tree[i] EXCEPT !.attrs = @ \ {"class"}, !.cls = {}]
        ELSE tree[i]]

\* Lines 154-156: tag.attrs = None leaves the table no attribute at all.
StripTables(tree) ==
    [i \in 1..Len(tree) |->
        IF tree[i].k = "start" /\ tree[i].tag = "table" /\ "id" \notin tree[i].attrs
        THEN [tree[i] EXCEPT !.attrs = {}, !.cls = {}]
        ELSE tree[i]]

\* str.split("\n").
RECURSIVE SplitLines(_)
SplitLines(html) ==
    IF \A i \in 1..Len(html) : html[i] # Newline THEN <<html>>
    ELSE LET i == CHOOSE j \in 1..Len(html) :
                     /\ html[j] = Newline
                     /\ \A m \in 1..(j - 1) : html[m] # Newline
         IN <<SubSeq(html, 1, i - 1)>> \o SplitLines(SubSeq(html, i + 1, Len(html)))

\* "\n".join(lines).
RECURSIVE JoinLines(_)
JoinLines(lines) ==
    IF lines = <<>> THEN <<>>
    ELSE IF Len(lines) = 1 THEN lines[1]
         ELSE lines[1] \o <<Newline>> \o JoinLines(Tail(lines))

\* Blank lines removed by collapsing each pair of newlines once.
RemoveBlankLines_pairs(html) == Replace(html, <<Newline, Newline>>, <<Newline>>)

\* Line 158.
RemoveBlankLines(html) ==
    LET NotBlank(line) == line # <<>>
    IN JoinLines(SelectSeq(SplitLines(html), NotBlank))

\* Lines 129-156: the tree that is serialised.
CleanTree(html) ==
    StripTables(ReplaceLoop(RemoveLoop(Parse(html), classes_to_remove),
                            classes_to_replace))

\* Lines 158-161: the content written back to the report file.
CleanFile(tree) == RemoveBlankLines(Serialize(tree))

MaxCleans == 2

CleanIdle ==
    /\ raw_html = <<>>
    /\ report_file = <<>>
    /\ light_html = <<>>
    /\ cleans = 0
    /\ todo = {}
    /\ phase = "idle"

CleanInit ==
    /\ raw_html \in RawDocs
    /\ report_file = raw_html
    /\ light_html = <<>>
    /\ cleans = 0
    /\ todo = {}
    /\ phase = "idle"

\* One call of clean_html on the report file.
clean_html ==
    /\ phase = "idle"
    /\ cleans < MaxCleans
    /\ light_html' = CleanTree(report_file)
    /\ report_file' = CleanFile(light_html')
    /\ cleans' = cleans + 1
    /\ UNCHANGED <<raw_html, todo, phase>>
    /\ UNCHANGED <<kernel_vars, init_vars, pipe_vars>>

-----------------------------------------------------------------------------
(* clean_html with the unwrap loop of lines 149-151 taking the nine class   *)
(* names in any order                                                       *)

MaxOrderTokens == 5

OrderElements ==
    { StartTag("div", {"class"}, {"prompt", "output_prompt"}),
      StartTag("div", {"class"}, {"cell", "border-box-sizing"}),
      StartTag("div", {"class"}, {"output", "output_area"}),
      StartTag("table", {"class"}, {"dataframe"}) }

OrderDocs == UNION {Forests(n, OrderElements, {Text}) : n \in 0..MaxOrderTokens}

OrderInit ==
    /\ raw_html \in OrderDocs
    /\ report_file = raw_html
    /\ light_html = <<>>
    /\ cleans = 0
    /\ todo = Range(classes_to_replace)
    /\ phase = "parse"

\* Lines 129-147: parse, then the removal loop.
OrderParseAndRemove ==
    /\ phase = "parse"
    /\ light_html' = RemoveLoop(Parse(report_file), classes_to_remove)
    /\ phase' = "unwrap"
    /\ UNCHANGED <<raw_html, report_file, cleans, todo>>
    /\ UNCHANGED <<kernel_vars, init_vars, pipe_vars>>

\* Lines 150-151 for the class taken next, any class not taken yet.
OrderUnwrap ==
    /\ phase = "unwrap"
    /\ \E class \in todo :
          /\ light_html' = ReplaceClass(light_html, class)
          /\ todo' = todo \ {class}
    /\ UNCHANGED <<raw_html, report_file, cleans, phase>>
    /\ UNCHANGED <<kernel_vars, init_vars, pipe_vars>>

\* Lines 153-161: the tables, then the file written back.
OrderTablesAndWrite ==
    /\ phase = "unwrap"
    /\ todo = {}
    /\ light_html' = StripTables(light_html)
    /\ report_file' = CleanFile(light_html')
    /\ cleans' = cleans + 1
    /\ phase' = "written"
    /\ UNCHANGED <<raw_html, todo>>
    /\ UNCHANGED <<kernel_vars, init_vars, pipe_vars>>

-----------------------------------------------------------------------------
(* The pipeline: execute_notebook (lines 56-80) and notebook_to_report      *)
(* (lines 82-121) of Report objects in separate processes on one file       *)
(* system.  A call is a sequence of steps, one per access to the file       *)
(* system or to a collaborator; between two steps of one process the other  *)
(* may run.                                                                 *)

Procs == {"p1", "p2"}

MaxCalls == 2

\* The notebooks a Report may be built on: the same file name in two
\* folders, and another name, whose file may not be there.
NotebookA == PathJoin(<<"/", "n">>, <<"a">> \o DOT_IPYNB)
NotebookWA == PathJoin(<<"/", "n", "/", "w">>, <<"a">> \o DOT_IPYNB)
SavedNotebooks == {NotebookA, NotebookWA}
OtherNotebook == PathJoin(<<"/", "n">>, <<"_">> \o DOT_IPYNB)
PipeNotebooks == SavedNotebooks \cup {OtherNotebook}

\* A file: a notebook (as saved, or executed) or an exported HTML body.
NotebookFile(src, kernelspec, title) ==
    [kind |-> "notebook", src |-> src, kernelspec |-> kernelspec, title |-> title,
     executed |-> FALSE, kernel_name |-> ""]

\* The notebook saved at each path: its declared kernel, and its title
\* metadata when it has one.
SourceNotebook(path) ==
    IF path = NotebookWA
    THEN NotebookFile(path, "conda-env-py", Some(<<"T">>))
    ELSE NotebookFile(path, "python3", None)

NoNotebook == NotebookFile(<<>>, "", None)

\* fs with `content` at `path`.
WriteFile(files, path, content) ==
    [q \in DOMAIN files \cup {path} |-> IF q = path THEN content ELSE files[q]]

\* fs without `path`.
Unlink(files, path) == [q \in DOMAIN files \ {path} |-> files[q]]

\* The call of p ends with an exception; filename is the path a
\* FileNotFoundError names.
Raise(p, method, error, filename) ==
    /\ calls' = [calls EXCEPT ![p] = Append(@, [method |-> method, outcome |-> error,
                                                src |-> <<>>, filename |-> filename])]
    /\ pc' = [pc EXCEPT ![p] = "idle"]
    /\ notebook' = [notebook EXCEPT ![p] = NoNotebook]

\* The call of p returns; src is the source path of the notebook it handled.
Return(p, method, src) ==
    /\ calls' = [calls EXCEPT ![p] = Append(@, [method |-> method, outcome |-> "ok",
                                                src |-> src, filename |-> <<>>])]
    /\ pc' = [pc EXCEPT ![p] = "idle"]
    /\ notebook' = [notebook EXCEPT ![p] = NoNotebook]

PipeInit ==
    /\ reports \in [Procs -> {Report_init(n, r) : n \in PipeNotebooks, r \in ReportFolders}]
    /\ \E saved \in {SavedNotebooks, PipeNotebooks} :
          fs = [q \in saved |-> SourceNotebook(q)]
    /\ pc = [p \in Procs |-> "idle"]
    /\ notebook = [p \in Procs |-> NoNotebook]
    /\ calls = [p \in Procs |-> <<>>]
    /\ required_kernel = None
    /\ available_kernels = {"python3", "ir"}
    /\ kernel_result = None

others_than_pipe == <<required_kernel, available_kernels, kernel_result, init_vars, clean_vars>>

\* execute_notebook, lines 63-66: nbformat.read of the source notebook.
ExecRead(p) ==
    /\ pc[p] = "idle"
    /\ Len(calls[p]) < MaxCalls
    /\ IF reports[p].notebook_path \in DOMAIN fs
       THEN /\ notebook' = [notebook EXCEPT ![p] = fs[reports[p].notebook_path]]
            /\ pc' = [pc EXCEPT ![p] = "exec_run"]
            /\ UNCHANGED calls
       ELSE Raise(p, "execute_notebook", "FileNotFoundError", reports[p].notebook_path)
    /\ UNCHANGED <<reports, fs, others_than_pipe>>

\* An executor that removes the temporary file when a cell raises.
ExecRun_cleanup(p) ==
    /\ pc[p] = "exec_run"
    /\ LET kernel_name == kernel(notebook[p].kernelspec, available_kernels).value
       IN \/ /\ notebook' = [notebook EXCEPT ![p] =
                               [@ EXCEPT !.executed = TRUE, !.kernel_name = kernel_name]]
             /\ pc' = [pc EXCEPT ![p] = "exec_write"]
             /\ UNCHANGED <<calls, fs>>
          \/ /\ Raise(p, "execute_notebook", "CellExecutionError", <<>>)
             /\ fs' = Unlink(fs, reports[p].temporary_notebook)
    /\ UNCHANGED <<reports, others_than_pipe>>

\* execute_notebook, lines 68-78: the kernel is resolved and the cells run;
\* a cell may raise.
ExecRun(p) ==
    /\ pc[p] = "exec_run"
    /\ LET kernel_name == kernel(notebook[p].kernelspec, available_kernels).value
       IN \/ /\ notebook' = [notebook EXCEPT ![p] =
                               [@ EXCEPT !.executed = TRUE, !.kernel_name = kernel_name]]
             /\ pc' = [pc EXCEPT ![p] = "exec_write"]
             /\ UNCHANGED calls
          \/ Raise(p, "execute_notebook", "CellExecutionError", <<>>)
    /\ UNCHANGED <<reports, fs, others_than_pipe>>

\* execute_notebook, line 80: nbformat.write to the temporary path.
ExecWrite(p) ==
    /\ pc[p] = "exec_write"
    /\ fs' = WriteFile(fs, reports[p].temporary_notebook, notebook[p])
    /\ Return(p, "execute_notebook", notebook[p].src)
    /\ UNCHANGED <<reports, others_than_pipe>>

\* notebook_to_report, lines 108-110: the temporary notebook is opened and read.
N2RRead(p) ==
    /\ pc[p] = "idle"
    /\ Len(calls[p]) < MaxCalls
    /\ IF reports[p].temporary_notebook \in DOMAIN fs
       THEN /\ notebook' = [notebook EXCEPT ![p] = fs[reports[p].temporary_notebook]]
            /\ pc' = [pc EXCEPT ![p] = "n2r_write"]
            /\ UNCHANGED calls
       ELSE Raise(p, "notebook_to_report", "FileNotFoundError", reports[p].temporary_notebook)
    /\ UNCHANGED <<reports, fs, others_than_pipe>>

\* Lines 111-116: the exported body, known by the notebook it renders and
\* its title: the notebook's title metadata when it has one, else the
\* Report's.  What the exporter's template makes of it is left open.
Export(nb, default_title) ==
    [kind |-> "html", src |-> nb.src, kernelspec |-> nb.kernelspec,
     title |-> IF nb.title # None THEN nb.title ELSE Some(default_title),
     executed |-> nb.executed, kernel_name |-> nb.kernel_name]

\* notebook_to_report, lines 94-106 and 111-118: export, with the default
\* template or the one given, then write_text to the report path.  A
\* template that is not there makes the exporter raise, a report folder that
\* is not there makes write_text raise.
N2RWrite(p) ==
    /\ pc[p] = "n2r_write"
    /\ \/ /\ fs' = WriteFile(fs, reports[p].report_path,
                             Export(notebook[p], reports[p].title))
          /\ pc' = [pc EXCEPT ![p] = "n2r_unlink"]
          /\ UNCHANGED <<calls, notebook>>
       \/ /\ Raise(p, "notebook_to_report", "TemplateNotFound", <<>>)
          /\ UNCHANGED fs
       \/ /\ Raise(p, "notebook_to_report", "FileNotFoundError", reports[p].report_path)
          /\ UNCHANGED fs
    /\ UNCHANGED <<reports, others_than_pipe>>

\* A renderer that leaves the temporary notebook behind.
N2RUnlink_keep(p) ==
    /\ pc[p] = "n2r_unlink"
    /\ Return(p, "notebook_to_report", notebook[p].src)
    /\ UNCHANGED <<fs, reports, others_than_pipe>>

\* notebook_to_report, lines 119-121: unlink of the temporary notebook.
N2RUnlink(p) ==
    /\ pc[p] = "n2r_unlink"
    /\ IF reports[p].temporary_notebook \in DOMAIN fs
       THEN /\ fs' = Unlink(fs, reports[p].temporary_notebook)
            /\ Return(p, "notebook_to_report", notebook[p].src)
       ELSE /\ Raise(p, "notebook_to_report", "FileNotFoundError", reports[p].temporary_notebook)
            /\ UNCHANGED fs
    /\ UNCHANGED <<reports, others_than_pipe>>

-----------------------------------------------------------------------------
(* Specifications of the pure parts                                         *)

PipeIdle ==
    /\ reports = <<>>
    /\ fs = <<>>
    /\ pc = <<>>
    /\ notebook = <<>>
    /\ calls = <<>>

KernelStart == KernelInit /\ InitIdle /\ CleanIdle /\ PipeIdle
KernelNext == CallKernel
KernelSpec == KernelStart /\ [][KernelNext]_vars

InitStart == InitInit /\ KernelIdle /\ CleanIdle /\ PipeIdle
InitNext == Construct
InitSpec == InitStart /\ [][InitNext]_vars

CleanStart == CleanInit /\ KernelIdle /\ InitIdle /\ PipeIdle
CleanNext == clean_html
CleanSpec == CleanStart /\ [][CleanNext]_vars

Init == PipeInit /\ InitIdle /\ CleanIdle
Next ==
    \/ \E p \in Procs : ExecRead(p)
    \/ \E p \in Procs : ExecRun(p)
    \/ \E p \in Procs : ExecWrite(p)
    \/ \E p \in Procs : N2RRead(p)
    \/ \E p \in Procs : N2RWrite(p)
    \/ \E p \in Procs : N2RUnlink(p)
Spec == Init /\ [][Next]_vars

OrderStart == OrderInit /\ KernelIdle /\ InitIdle /\ PipeIdle
OrderNext ==
    \/ OrderParseAndRemove
    \/ OrderUnwrap
    \/ OrderTablesAndWrite
OrderSpec == OrderStart /\ [][OrderNext]_vars

-----------------------------------------------------------------------------
(* Properties of kernel                                                     *)

\* C1: kernel(k) returns k unchanged when k is among the installed kernels and
\* the fixed fallback "python3" when it is not, and never raises.
C1_KernelResolves ==
    kernel_result # None =>
        LET k == required_kernel[1]
            r == kernel_result[1]
        IN /\ ~r.raised
           /\ k \in available_kernels => r.value = k
           /\ k \notin available_kernels => r.value = "python3"

\* C1 witness: an unknown kernel other than the fallback has been resolved,
\* on a host where the fallback itself is not installed.
C1_Witness ==
    /\ kernel_result # None
    /\ required_kernel[1] \notin available_kernels
    /\ required_kernel[1] # "python3"
    /\ "python3" \notin available_kernels
    /\ available_kernels # {}

-----------------------------------------------------------------------------
(* Properties of Report.__init__                                            *)

\* C6: for a notebook whose file name ends in .ipynb the report path is
\* <report_folder>/<notebook_stem>.html, only the extension swapped, and lies
\* directly under the report folder.
C6_ReportPathSwapsExtension ==
    report_obj # None =>
        LET name == PathName(init_args[1].notebook_path)
            stem == SubSeq(name, 1, Len(name) - Len(DOT_IPYNB))
            folder == init_args[1].report_folder
        IN EndsWith(name, DOT_IPYNB) =>
              /\ report_obj[1].report_path = PathJoin(folder, stem \o DOT_HTML)
              /\ PathParent(report_obj[1].report_path) = folder

-----------------------------------------------------------------------------
(* Properties of Report.clean_html                                          *)

NineWrapperClasses ==
    {"border-box-sizing", "container", "cell", "inner_cell", "rendered_html",
     "output_prompt", "output_wrapper", "output", "output_area"}
DeletionClasses == {"output_text", "prompt"}
TargetedClasses == NineWrapperClasses \cup DeletionClasses

IsStart(t) == t.k = "start"
IsDiv(t) == t.k = "start" /\ t.tag = "div"
IsTable(t) == t.k = "start" /\ t.tag = "table"

\* C2 as amended: after clean_html no div element of the report carries any
\* of the nine wrapper classes nor the output_text or prompt class, in the
\* tree and in the file written back.
C2_NoTargetedDivLeft ==
    cleans >= 1 =>
        /\ \A i \in 1..Len(light_html) :
              IsDiv(light_html[i]) => light_html[i].cls \cap TargetedClasses = {}
        /\ \A i \in 1..Len(report_file) :
              IsDiv(report_file[i]) => report_file[i].cls \cap TargetedClasses = {}

\* C2 as stated: after clean_html no element at all carries any of the nine
\* wrapper classes nor the output_text or prompt class.
C2_NoTargetedElementLeft ==
    cleans >= 1 =>
        \A i \in 1..Len(light_html) :
            IsStart(light_html[i]) => light_html[i].cls \cap TargetedClasses = {}

\* C2 witness: a report holding a wrapper div and a deletion-set div has been
\* cleaned, and something is left of it.
C2_Witness ==
    /\ cleans = 1
    /\ \E i \in 1..Len(raw_html) :
          IsDiv(raw_html[i]) /\ raw_html[i].cls \cap NineWrapperClasses # {}
    /\ \E i \in 1..Len(raw_html) :
          IsDiv(raw_html[i]) /\ raw_html[i].cls \cap DeletionClasses # {}
    /\ report_file # <<>>

C4_Idempotent ==
    cleans >= 2 => report_file = CleanFile(CleanTree(raw_html))

\* C4 witness: a second run has been made on a report whose first run removed
\* something and left something.
C4_Witness ==
    /\ cleans = 2
    /\ report_file # <<>>
    /\ Len(report_file) < Len(raw_html)
    /\ \E i \in 1..Len(raw_html) : IsDiv(raw_html[i])

\* The parsed exported file, its positions and elements.
RawTree == Parse(raw_html)
Ident(tree) == [i \in 1..Len(tree) |-> <<tree[i].k, tree[i].tag, tree[i].n>>]

\* The position in the raw tree of one of its nodes.
PositionOf(node) ==
    IF node.k = "end" THEN EndOf(RawTree, node.n) ELSE node.n

\* Position i lies in the element that starts at position j (its own start
\* and end tags included).
Encloses(j, i) ==
    /\ RawTree[j].k = "start"
    /\ j <= i
    /\ i <= EndOf(RawTree, RawTree[j].n)

\* The start tags the deletion set and the wrapper set take in: those of div
\* elements, or those of any element.
Targeted(t, divs_only) == IF divs_only THEN IsDiv(t) ELSE IsStart(t)

\* The node survives when no element of the deletion set encloses it and it
\* is not a tag of a wrapper element.
Survives(node, divs_only) ==
    /\ ~\E j \in 1..Len(RawTree) :
           /\ Targeted(RawTree[j], divs_only)
           /\ RawTree[j].cls \cap DeletionClasses # {}
           /\ Encloses(j, PositionOf(node))
    /\ node.k \in {"start", "end"} =>
           ~(/\ Targeted(RawTree[node.n], divs_only)
             /\ RawTree[node.n].cls \cap NineWrapperClasses # {})

\* C8 as amended: clean_html removes every div of the deletion set with all
\* its descendants and replaces every wrapper-class div by its children in
\* place: the nodes of the cleaned tree are exactly the original nodes that
\* are neither such a div, nor inside a deletion-set div, in their original
\* order.
C8_ExactlyTheSurvivingNodes ==
    cleans = 1 =>
        LET Keep(node) == Survives(node, TRUE)
        IN Ident(light_html) = Ident(SelectSeq(RawTree, Keep))

\* C8 as stated: the same of every element carrying a deletion-set or wrapper
\* class, whatever its tag.
C8_ExactlyTheSurvivingElements ==
    cleans = 1 =>
        LET Keep(node) == Survives(node, FALSE)
        IN Ident(light_html) = Ident(SelectSeq(RawTree, Keep))

\* C8 witness: a cleaned report in which a wrapper div held a deletion-set div
\* and, after it, a node that survives in the cleaned tree.
C8_Witness ==
    /\ cleans = 1
    /\ \E j \in 1..Len(RawTree) :
          /\ IsDiv(RawTree[j])
          /\ RawTree[j].cls \cap DeletionClasses = {}
          /\ RawTree[j].cls \cap NineWrapperClasses # {}
          /\ \E d \in (j + 1)..Len(RawTree) :
                /\ IsDiv(RawTree[d])
                /\ RawTree[d].cls \cap DeletionClasses # {}
                /\ Encloses(j, d)
                /\ \E i \in 1..Len(light_html) :
                      /\ light_html[i].n > EndOf(RawTree, d)
                      /\ Encloses(j, light_html[i].n)

\* C9: the order in which the unwrap loop takes the nine wrapper class names
\* does not change the result: whatever the order, the tree and the file are
\* those of the listed order.
C9_OrderIndependent ==
    phase = "written" =>
        /\ light_html = CleanTree(raw_html)
        /\ report_file = CleanFile(CleanTree(raw_html))

\* C9 witness: a run that finished on a report with one wrapper div inside
\* another, of which something is left.
C9_Witness ==
    /\ phase = "written"
    /\ light_html # <<>>
    /\ \E i \in 1..(Len(raw_html) - 1) :
          /\ IsDiv(raw_html[i]) /\ raw_html[i].cls \cap NineWrapperClasses # {}
          /\ IsDiv(raw_html[i + 1]) /\ raw_html[i + 1].cls \cap NineWrapperClasses # {}
          /\ raw_html[i].cls \cap DeletionClasses = {}
          /\ raw_html[i + 1].cls \cap DeletionClasses = {}

-----------------------------------------------------------------------------
(* Properties of the pipeline                                               *)

Last(seq) == seq[Len(seq)]

\* Process p finishes a call of `method` in this step.
Finishes(p, method) ==
    /\ Len(calls'[p]) = Len(calls[p]) + 1
    /\ Last(calls'[p]).method = method

\* C5: when notebook_to_report returns successfully the temporary notebook no
\* longer exists and the report holds the exported HTML: the step that writes
\* the report comes first and leaves the temporary file alone, the unlink
\* comes after it and is the step that returns; and a process that is alone
\* on its temporary path leaves no temporary file behind after a successful
\* notebook_to_report.
C5_ReportWrittenThenTempDeleted ==
    /\ [][\A p \in Procs :
            /\ (Finishes(p, "notebook_to_report") /\ Last(calls'[p]).outcome = "ok") =>
                  /\ pc[p] = "n2r_unlink"
                  /\ reports[p].temporary_notebook \notin DOMAIN fs'
            /\ (pc'[p] = "n2r_unlink" /\ pc[p] # "n2r_unlink") =>
                  /\ pc[p] = "n2r_write"
                  /\ reports[p].report_path \in DOMAIN fs'
                  /\ fs'[reports[p].report_path].kind = "html"
                  /\ fs'[reports[p].report_path].src = notebook[p].src
                  /\ \A q \in DOMAIN fs : q # reports[p].report_path =>
                        q \in DOMAIN fs' /\ fs'[q] = fs[q]
         ]_vars
    /\ [](\A p \in Procs :
            (/\ pc[p] = "idle"
             /\ calls[p] # <<>>
             /\ Last(calls[p]).method = "notebook_to_report"
             /\ Last(calls[p]).outcome = "ok"
             /\ \A q \in Procs \ {p} :
                   reports[q].temporary_notebook # reports[p].temporary_notebook)
            => /\ reports[p].temporary_notebook \notin DOMAIN fs
               /\ reports[p].report_path \in DOMAIN fs)

\* C5 witness: a process has executed its notebook and then rendered it
\* successfully; the report is there and the temporary notebook is not.
C5_Witness ==
    \E p \in Procs :
        /\ Len(calls[p]) = 2
        /\ calls[p][1].method = "execute_notebook" /\ calls[p][1].outcome = "ok"
        /\ calls[p][2].method = "notebook_to_report" /\ calls[p][2].outcome = "ok"
        /\ reports[p].report_path \in DOMAIN fs
        /\ reports[p].temporary_notebook \notin DOMAIN fs

\* C7: a failing execute_notebook (source notebook missing, or a cell raising)
\* ends the call with that error, and no step of the call has touched the
\* file system: the file at the temporary path and the report file are as
\* they were.  Every step of execute_notebook before its final write, and the
\* raising step, leaves the file system unchanged, and the raising step ends
\* the call.
C7_FailedExecuteTouchesNothing ==
    [][\A p \in Procs :
         /\ (pc[p] # pc'[p] /\ pc'[p] \in {"exec_run", "exec_write"}) => fs' = fs
         /\ (Finishes(p, "execute_notebook") /\ Last(calls'[p]).outcome # "ok") =>
               /\ fs' = fs
               /\ pc'[p] = "idle"
               /\ pc[p] \in {"idle", "exec_run"}
               /\ Last(calls'[p]).outcome \in {"FileNotFoundError", "CellExecutionError"}
      ]_vars

\* C7 witness: after a successful execute_notebook a second one failed on a
\* raising cell, and the temporary notebook of the first is still there.
C7_Witness ==
    \E p \in Procs :
        /\ Len(calls[p]) = 2
        /\ calls[p][1].method = "execute_notebook" /\ calls[p][1].outcome = "ok"
        /\ calls[p][2].method = "execute_notebook"
        /\ calls[p][2].outcome = "CellExecutionError"
        /\ reports[p].temporary_notebook \in DOMAIN fs
        /\ fs[reports[p].temporary_notebook].src = reports[p].notebook_path
        /\ reports[p].report_path \notin DOMAIN fs

\* C10: two Reports on notebooks of the same file name use the same temporary
\* path, whatever their folders and report folders; and a process only ever
\* renders a notebook other than its own when another Report has that file
\* name (the race of the witness).
C10_SameNameSharesTemp ==
    /\ \A p, q \in Procs :
          reports[p].notebook = reports[q].notebook =>
              reports[p].temporary_notebook = reports[q].temporary_notebook
    /\ \A p \in Procs : \A i \in 1..Len(calls[p]) :
          (/\ calls[p][i].method = "notebook_to_report"
           /\ calls[p][i].outcome = "ok"
           /\ calls[p][i].src # reports[p].notebook_path)
          => \E q \in Procs \ {p} :
                /\ reports[q].notebook = reports[p].notebook
                /\ reports[q].notebook_path = calls[p][i].src

\* C10 witness: the race.  Two processes on notebooks of the same name in
\* different folders, with different report folders, each having executed its
\* own notebook successfully: the notebook_to_report of one rendered the
\* notebook the other had executed and deleted the shared temporary file, and
\* the notebook_to_report of the other then failed with file-not-found on it.
C10_Witness ==
    \E p, q \in Procs :
        /\ p # q
        /\ reports[p].notebook = reports[q].notebook
        /\ reports[p].notebook_path # reports[q].notebook_path
        /\ reports[p].report_path # reports[q].report_path
        /\ Len(calls[p]) = 2 /\ Len(calls[q]) = 2
        /\ calls[p][1].method = "execute_notebook" /\ calls[p][1].outcome = "ok"
        /\ calls[q][1].method = "execute_notebook" /\ calls[q][1].outcome = "ok"
        /\ calls[p][2].method = "notebook_to_report" /\ calls[p][2].outcome = "ok"
        /\ calls[p][2].src = reports[q].notebook_path
        /\ calls[q][2].method = "notebook_to_report"
        /\ calls[q][2].outcome = "FileNotFoundError"
        /\ calls[q][2].filename = reports[q].temporary_notebook

====
